---- MODULE Spec2Model ----
(***************************************************************************)
(* The Wikipedia MCP assistant (src/src/mcp_client.py): the session loop   *)
(* of main, the command handlers list_prompts and handle_prompt, the tool  *)
(* registry built by load_mcp_tools, and the two-node graph (chat_node,    *)
(* tool_node) that create_graph compiles over a checkpointed message list. *)
(*                                                                         *)
(* Text is modelled by its parts.  An input line is a tuple of one-letter  *)
(* strings, so that strip, lower, startswith and shlex.split are computed  *)
(* letter by letter.  A printed line is the tuple of the values handed to  *)
(* print.  The language model, the MCP backend and the user are the        *)
(* environment: each of their answers is a nondeterministic choice.        *)
(***************************************************************************)
EXTENDS Naturals, Sequences, FiniteSets, TLC

(***************************************************************************)
(* Bounds of the model.                                                    *)
(***************************************************************************)
\* A session in which the user types every kind of line is followed up to
\* this many messages of conversation.
MaxSessionMsgs == 4
\* A session in which the user types questions and prompt runs is followed
\* up to this many messages of conversation.
MaxTurnMsgs == 6
\* The language model requests at most this many tool calls in one response.
MaxCalls == 2

(***************************************************************************)
(* Letters and lines.                                                      *)
(***************************************************************************)
Upper == <<"A","B","C","D","E","F","G","H","I","J","K","L","M",
           "N","O","P","Q","R","S","T","U","V","W","X","Y","Z">>
Lowers == <<"a","b","c","d","e","f","g","h","i","j","k","l","m",
            "n","o","p","q","r","s","t","u","v","w","x","y","z">>

\* str.lower on one letter.
LowerChar(c) ==
    IF \E i \in 1..26 : Upper[i] = c
    THEN Lowers[CHOOSE i \in 1..26 : Upper[i] = c]
    ELSE c

\* str.lower.
Lower(s) == [i \in 1..Len(s) |-> LowerChar(s[i])]

\* The whitespace of the modelled alphabet (str.strip and shlex both use it).
IsSpace(c) == c \in {" ", "\t"}

RECURSIVE LStrip(_)
LStrip(s) == IF s # <<>> /\ IsSpace(Head(s)) THEN LStrip(Tail(s)) ELSE s

RECURSIVE RStrip(_)
RStrip(s) ==
    IF s # <<>> /\ IsSpace(s[Len(s)]) THEN RStrip(SubSeq(s, 1, Len(s) - 1)) ELSE s

\* str.strip.
Strip(s) == RStrip(LStrip(s))

\* str.startswith.
StartsWith(s, p) == Len(s) >= Len(p) /\ SubSeq(s, 1, Len(p)) = p

Last(s) == s[Len(s)]

CmdPrompt == <<"/","p","r","o","m","p","t">>
CmdPrompts == <<"/","p","r","o","m","p","t","s">>
ExitTokens == { <<"e","x","i","t">>, <<"q","u","i","t">>, <<"q">> }

(***************************************************************************)
(* shlex.split(command): POSIX mode, whitespace_split, no comment letters. *)
(* The scanner's states are " " (between tokens), "a" (in a word), a quote *)
(* letter (in a quoted part) and "\\" (after an escape letter).  The       *)
(* result is the list of tokens, or the ValueError the scanner raises at   *)
(* the end of the line inside a quoted part or after an escape letter.     *)
(***************************************************************************)
IsQuote(c) == c \in {"'", "\""}
IsEscape(c) == c = "\\"

RECURSIVE ShlexScan(_, _, _, _, _, _, _)
ShlexScan(s, i, state, escapedstate, token, quoted, parts) ==
    IF i > Len(s)
    THEN IF IsQuote(state)
         THEN [ok |-> FALSE, parts |-> <<>>, error |-> "No closing quotation"]
         ELSE IF IsEscape(state)
         THEN [ok |-> FALSE, parts |-> <<>>, error |-> "No escaped character"]
         ELSE IF state = "a" /\ (token # <<>> \/ quoted)
         THEN [ok |-> TRUE, parts |-> Append(parts, token), error |-> ""]
         ELSE [ok |-> TRUE, parts |-> parts, error |-> ""]
    ELSE LET c == s[i] IN
         IF state = " "
         THEN IF IsSpace(c)
              THEN ShlexScan(s, i + 1, " ", escapedstate, <<>>, FALSE, parts)
              ELSE IF IsEscape(c)
              THEN ShlexScan(s, i + 1, "\\", "a", <<>>, FALSE, parts)
              ELSE IF IsQuote(c)
              THEN ShlexScan(s, i + 1, c, escapedstate, <<>>, TRUE, parts)
              ELSE ShlexScan(s, i + 1, "a", escapedstate, <<c>>, FALSE, parts)
         ELSE IF IsQuote(state)
         THEN IF c = state
              THEN ShlexScan(s, i + 1, "a", escapedstate, token, TRUE, parts)
              ELSE IF IsEscape(c) /\ state = "\""
              THEN ShlexScan(s, i + 1, "\\", state, token, TRUE, parts)
              ELSE ShlexScan(s, i + 1, state, escapedstate, Append(token, c), TRUE, parts)
         ELSE IF IsEscape(state)
         THEN IF IsQuote(escapedstate) /\ ~IsEscape(c) /\ c # escapedstate
              THEN ShlexScan(s, i + 1, escapedstate, escapedstate,
                             token \o <<"\\", c>>, quoted, parts)
              ELSE ShlexScan(s, i + 1, escapedstate, escapedstate,
                             Append(token, c), quoted, parts)
         ELSE \* state = "a"
              IF IsSpace(c)
              THEN ShlexScan(s, i + 1, " ", escapedstate, <<>>, FALSE,
                             IF token # <<>> \/ quoted THEN Append(parts, token) ELSE parts)
              ELSE IF IsQuote(c)
              THEN ShlexScan(s, i + 1, c, escapedstate, token, TRUE, parts)
              ELSE IF IsEscape(c)
              THEN ShlexScan(s, i + 1, "\\", "a", token, quoted, parts)
              ELSE ShlexScan(s, i + 1, "a", escapedstate, Append(token, c), quoted, parts)

ShlexSplit(s) == ShlexScan(s, 1, " ", "a", <<>>, FALSE, <<>>)

(***************************************************************************)
(* The environment: what the MCP backend lists and answers, what the user  *)
(* types, what the language model returns.                                 *)
(***************************************************************************)
None == "None"

\* The tool lists a backend may answer to session.list_tools().
FetchTool == [name |-> "fetch_wikipedia_info", description |-> "Search Wikipedia"]
SectionsTool == [name |-> "list_wikipedia_sections", description |-> None]
ServerToolLists == { <<>>, <<FetchTool, SectionsTool>> }

\* The prompt catalogs a backend may answer to session.list_prompts().
PromptP == [name |-> <<"p">>, arguments |-> <<"arg1", "arg2">>]
PromptR == [name |-> <<"r">>, arguments |-> <<>>]
Catalogs == { <<>>, <<PromptR, PromptP>> }

\* What session.call_tool does for one call: a result with one text item or
\* with two, a result with no content item, or an exception; content has the
\* texts of the items of the result, text the message of the exception.
BackendOutcomes ==
    { [kind |-> "content", text |-> "", content |-> <<"a result">>],
      [kind |-> "content", text |-> "", content |-> <<"a result", "a second item">>],
      [kind |-> "empty", text |-> "", content |-> <<>>],
      [kind |-> "raise", text |-> "Tool execution failed", content |-> <<>>] }

\* The lines the user types in a session of questions and prompt runs.
TurnLines ==
    { <<"q","q">>, CmdPrompt \o <<" ", "p", " ", "x", " ", "y">> }

\* The lines the user types in a session of catalog commands.
CatalogLines ==
    { CmdPrompts, CmdPrompt,
      CmdPrompt \o <<" ", "p", " ", "x", " ", "y">>,
      CmdPrompt \o <<" ", "r", " ", "x">>,
      CmdPrompt \o <<" ", "R">> }

\* The lines the user types in a session with every kind of line.
InputLines ==
    { <<" ", "Q", " ">>, <<"E","x","i","t">>, <<"q","u","i","t">>,
      <<"q","q">>,
      CmdPrompts, <<" ">> \o CmdPrompts \o <<" ", "x">>,
      CmdPrompt, CmdPrompt \o <<"x">>,
      CmdPrompt \o <<" ", "p", " ", "x", " ", "y">>,
      CmdPrompt \o <<" ", "p", " ", "'", "x", " ", "y", "'">>,
      CmdPrompt \o <<" ", "r", " ", "x">>,
      CmdPrompt \o <<" ", "R">>,
      CmdPrompt \o <<" ", "p", " ", "\"", "x">> }

(***************************************************************************)
(* Messages and the checkpointed State of the graph.                       *)
(***************************************************************************)
HumanMessage(content, id) ==
    [type |-> "human", content |-> content, tool_calls |-> <<>>, name |-> "", id |-> id]
AIMessage(content, tool_calls) ==
    [type |-> "ai", content |-> content, tool_calls |-> tool_calls, name |-> "", id |-> 0]
\* A tool result recorded as an assistant message.
ToolMessageAsAssistant(content, name) ==
    [type |-> "ai", content |-> content, tool_calls |-> <<>>, name |-> name, id |-> 0]

ToolMessage(content, name) ==
    [type |-> "tool", content |-> content, tool_calls |-> <<>>, name |-> name, id |-> 0]

\* A State without the reducer: the update overwrites the list.
add_messages_overwrite(left, right) == right

\* A reducer that puts the update in front of the list.
add_messages_prepend(left, right) == right \o left

\* The reducer of State.messages: every message of the update is new (the
\* library gives each a fresh id), so the update is appended.
add_messages(left, right) == left \o right

(***************************************************************************)
(* load_mcp_tools: one descriptor per listed tool, in the listed order;    *)
(* tool_name is the name create_tool_func binds into the descriptor's      *)
(* invocation function.                                                    *)
(***************************************************************************)
\* A load_mcp_tools whose invocation functions all read the loop variable
\* when they are called: each calls the tool discovered last.
load_mcp_tools_late_binding(listed) ==
    [i \in 1..Len(listed) |->
        [name |-> listed[i].name,
         description |-> IF listed[i].description = None
                         THEN <<"Tool: ", listed[i].name>>
                         ELSE <<listed[i].description>>,
         tool_name |-> listed[Len(listed)].name]]

load_mcp_tools(listed) ==
    [i \in 1..Len(listed) |->
        [name |-> listed[i].name,
         description |-> IF listed[i].description = None
                         THEN <<"Tool: ", listed[i].name>>
                         ELSE <<listed[i].description>>,
         tool_name |-> listed[i].name]]

\* A tool_func whose error text does not name the tool.
tool_func_anonymous(tool_name, outcome) ==
    IF outcome.kind = "raise"
    THEN <<"Error calling tool: ", outcome.text>>
    ELSE IF outcome.content # <<>> THEN <<outcome.content[1]>> ELSE <<"No result">>

\* A tool_func that returns the text of the last content item.
tool_func_last_item(tool_name, outcome) ==
    IF outcome.kind = "raise"
    THEN <<"Error calling tool ", tool_name, ": ", outcome.text>>
    ELSE IF outcome.content # <<>>
         THEN <<outcome.content[Len(outcome.content)]>>
         ELSE <<"No result">>

\* tool_func(input_data) of the descriptor bound to tool_name, for one
\* outcome of session.call_tool: the text it returns.
tool_func(tool_name, outcome) ==
    IF outcome.kind = "raise"
    THEN <<"Error calling tool ", tool_name, ": ", outcome.text>>
    ELSE IF outcome.content # <<>> THEN <<outcome.content[1]>> ELSE <<"No result">>

\* The descriptor ToolNode runs for a requested tool name.
ToolByName(registry, name) ==
    registry[CHOOSE i \in 1..Len(registry) : registry[i].name = name]

ToolNames(registry) == { registry[i].name : i \in 1..Len(registry) }

\* An unconditional edge from chat_node to tool_node.
tools_condition_always(msgs) == "tools"

\* tools_condition: the edge taken after chat_node.
tools_condition(msgs) ==
    IF msgs # <<>> /\ Last(msgs).type = "ai" /\ Last(msgs).tool_calls # <<>>
    THEN "tools"
    ELSE "__end__"

(***************************************************************************)
(* The command handlers.  Each is computed from the command line and from  *)
(* what the backend answers; the result says what was printed, which calls *)
(* were made, and whether an exception left the handler.                   *)
(***************************************************************************)
\* A session that answers from a copy of the catalog it took when the
\* catalog was empty.
PromptResponsesCached(cat) ==
    { [ok |-> FALSE, prompts |-> <<>>], [ok |-> TRUE, prompts |-> <<>>] }

\* The answers session.list_prompts() may give for the catalog cat: the
\* call raises (ok = FALSE) or returns the catalog's prompts.
PromptResponses(cat) ==
    { [ok |-> FALSE, prompts |-> <<>>], [ok |-> TRUE, prompts |-> cat] }

\* The answers session.get_prompt() may give: it raises or it renders.
RenderResponses == { [ok |-> FALSE], [ok |-> TRUE] }

CatalogError == "list_prompts failed"
RenderError == "Execution failed"
ModelError == "AuthenticationError"

NoPromptsLine == <<"No prompts found on the server.">>
ListHeaderLine == <<"\nAvailable Prompts and Argument Structure:">>
ListFooterLine == <<"\nUse: /prompt <prompt_name> \"arg1\" \"arg2\" ...">>
NoArgumentsLine == <<"  - No arguments required.">>
UsageLine == <<"Usage: /prompt <name> \"args>\"">>
PromptResultLine == <<"\n=== Prompt Result ===">>

\* ", ".join(names)
RECURSIVE Join(_)
Join(names) ==
    IF names = <<>> THEN <<>>
    ELSE IF Len(names) = 1 THEN <<names[1]>>
    ELSE <<names[1], ", ">> \o Join(Tail(names))

\* The lines list_prompts prints for the prompts of a non-empty answer.
RECURSIVE PromptLines(_)
PromptLines(prompts) ==
    IF prompts = <<>> THEN <<>>
    ELSE LET p == Head(prompts) IN
         << <<"\nPrompt: ", p.name>> >>
         \o (IF p.arguments # <<>>
             THEN [i \in 1..Len(p.arguments) |-> <<"  - ", p.arguments[i]>>]
             ELSE <<NoArgumentsLine>>)
         \o PromptLines(Tail(prompts))

\* A list_prompts that takes a failed query for an empty catalog.
list_prompts_swallowing(prompt_response) ==
    IF ~prompt_response.ok \/ prompt_response.prompts = <<>>
    THEN [raised |-> FALSE, exc |-> None, out |-> <<NoPromptsLine>>]
    ELSE [raised |-> FALSE, exc |-> None,
          out |-> <<ListHeaderLine>> \o PromptLines(prompt_response.prompts)
                  \o <<ListFooterLine>>]

\* list_prompts(session) for one answer of session.list_prompts().
list_prompts(prompt_response) ==
    IF ~prompt_response.ok
    THEN [raised |-> TRUE, exc |-> CatalogError, out |-> <<>>]
    ELSE IF prompt_response.prompts = <<>>
    THEN [raised |-> FALSE, exc |-> None, out |-> <<NoPromptsLine>>]
    ELSE [raised |-> FALSE, exc |-> None,
          out |-> <<ListHeaderLine>> \o PromptLines(prompt_response.prompts)
                  \o <<ListFooterLine>>]

\* A lookup that compares the names without regard to letter case.
FindPromptAnyCase(prompts, prompt_name) ==
    IF \E i \in 1..Len(prompts) : Lower(prompts[i].name) = Lower(prompt_name)
    THEN LET first == CHOOSE i \in 1..Len(prompts) :
                          /\ Lower(prompts[i].name) = Lower(prompt_name)
                          /\ \A j \in 1..(i - 1) :
                                Lower(prompts[j].name) # Lower(prompt_name)
         IN <<prompts[first]>>
    ELSE <<>>

\* next((p for p in prompts if p.name == prompt_name), None): the first
\* prompt of that name as a one-element tuple, or the empty tuple for None.
FindPrompt(prompts, prompt_name) ==
    IF \E i \in 1..Len(prompts) : prompts[i].name = prompt_name
    THEN LET first == CHOOSE i \in 1..Len(prompts) :
                          /\ prompts[i].name = prompt_name
                          /\ \A j \in 1..(i - 1) : prompts[j].name # prompt_name
         IN <<prompts[first]>>
    ELSE <<>>

\* A binding that pairs the declared names with the arguments from the last
\* to the first.
BindArgumentsReversed(arguments, args) ==
    LET n == IF Len(arguments) < Len(args) THEN Len(arguments) ELSE Len(args)
    IN [a \in { arguments[i] : i \in 1..n } |->
            args[n + 1 - (CHOOSE i \in 1..n : arguments[i] = a)]]

\* {arg.name: val for arg, val in zip(match.arguments, args)}
BindArguments(arguments, args) ==
    LET n == IF Len(arguments) < Len(args) THEN Len(arguments) ELSE Len(args)
    IN [a \in { arguments[i] : i \in 1..n } |->
            args[CHOOSE i \in 1..n : arguments[i] = a
                                     /\ \A j \in (i + 1)..n : arguments[j] # a]]

\* The text the backend renders for a prompt and its bound arguments.
RenderPrompt(prompt_name, arg_values) == <<"prompt", prompt_name, arg_values>>

\* An argument check that lets surplus arguments through.
ArgCountTooFew(args, arguments) == Len(args) < Len(arguments)

\* if len(args) != len(match.arguments)
ArgCountMismatch(args, arguments) == Len(args) # Len(arguments)

ExpectedLine(arguments) ==
    <<"Expected ", Len(arguments), " arguments: ", Join(arguments)>>

\* What a run of handle_prompt did, up to the call of agent.ainvoke: what it
\* printed, the calls it made, whether an exception left it (raised), and
\* whether it goes on to invoke the agent (invoke) with the rendered text.
PromptRun(raised, exc, out, lp, gp, invoke, text) ==
    [raised |-> raised, exc |-> exc, out |-> out, list_prompts |-> lp,
     get_prompt |-> gp, invoke |-> invoke, prompt_text |-> text]

\* The try block of handle_prompt for the tokens parts of the command: the
\* catalog is listed, the prompt looked up, the arguments counted and bound,
\* the prompt rendered; an exception of the backend is caught and printed.
handle_prompt_try(parts, prompt_def, rendered) ==
    LET prompt_name == parts[2]
        args == SubSeq(parts, 3, Len(parts))
        found == FindPrompt(prompt_def.prompts, prompt_name)
        match == found[1]
    IN  IF ~prompt_def.ok
        THEN PromptRun(FALSE, None, << <<"Prompt invocation failed:", CatalogError>> >>,
                       1, 0, FALSE, <<>>)
        ELSE IF found = <<>>
        THEN PromptRun(FALSE, None, << <<"Prompt '", prompt_name, "' not found.">> >>,
                       1, 0, FALSE, <<>>)
        ELSE IF ArgCountMismatch(args, match.arguments)
        THEN PromptRun(FALSE, None, <<ExpectedLine(match.arguments)>>, 1, 0, FALSE, <<>>)
        ELSE IF ~rendered.ok
        THEN PromptRun(FALSE, None, << <<"Prompt invocation failed:", RenderError>> >>,
                       1, 1, FALSE, <<>>)
        ELSE PromptRun(FALSE, None, <<>>, 1, 1, TRUE,
                       RenderPrompt(prompt_name, BindArguments(match.arguments, args)))

\* A handle_prompt that counts the tokens only after it has listed the
\* catalog.
handle_prompt_usage_late(command, prompt_def, rendered) ==
    LET split == ShlexSplit(Strip(command))
        parts == split.parts
    IN  IF ~split.ok
        THEN PromptRun(TRUE, split.error, <<>>, 0, 0, FALSE, <<>>)
        ELSE IF Len(parts) < 2
        THEN PromptRun(FALSE, None, <<UsageLine>>, 1, 0, FALSE, <<>>)
        ELSE handle_prompt_try(parts, prompt_def, rendered)

\* handle_prompt(session, tools, command, agent) up to the call of
\* agent.ainvoke.  shlex.split runs before the try block, so its ValueError
\* leaves handle_prompt.
handle_prompt(command, prompt_def, rendered) ==
    LET split == ShlexSplit(Strip(command))
        parts == split.parts
    IN  IF ~split.ok
        THEN PromptRun(TRUE, split.error, <<>>, 0, 0, FALSE, <<>>)
        ELSE IF Len(parts) < 2
        THEN PromptRun(FALSE, None, <<UsageLine>>, 0, 0, FALSE, <<>>)
        ELSE handle_prompt_try(parts, prompt_def, rendered)

\* A loop that tests the /prompt prefix before the /prompts prefix.
main_dispatch_prompt_first(line) ==
    IF Lower(line) \in ExitTokens THEN "exit"
    ELSE IF StartsWith(line, CmdPrompt) THEN "handle_prompt"
    ELSE IF StartsWith(line, CmdPrompts) THEN "list_prompts"
    ELSE "ainvoke"

\* The branch main's loop takes for user_input = input().strip().
main_dispatch(line) ==
    IF Lower(line) \in ExitTokens THEN "exit"
    ELSE IF StartsWith(line, CmdPrompts) THEN "list_prompts"
    ELSE IF StartsWith(line, CmdPrompt) THEN "handle_prompt"
    ELSE "ainvoke"

\* The reads of main's loop: each line the user may type, the line as
\* stripped, and the branch the loop takes for it.
AllLines == InputLines \cup TurnLines \cup CatalogLines
LineReads ==
    { [raw |-> raw, user_input |-> Strip(raw), branch |-> main_dispatch(Strip(raw))] :
        raw \in AllLines }

\* The runs of handle_prompt: each command line main hands to it, with each
\* answer of the backend, and what handle_prompt does for them.
AllPromptResponses == UNION { PromptResponses(cat) : cat \in Catalogs }
HandlePromptRuns ==
    { [read |-> rd, prompt_def |-> prompt_def, rendered |-> rendered,
       result |-> handle_prompt(rd.user_input, prompt_def, rendered)] :
        rd \in { x \in LineReads : x.branch = "handle_prompt" },
        prompt_def \in AllPromptResponses,
        rendered \in RenderResponses }

(***************************************************************************)
(* The server (mcp_server.py): its tools over the lookup library.  Each    *)
(* tool is computed from its arguments and from what wikipedia.search and  *)
(* wikipedia.page do; the result says whether the tool returned a dict     *)
(* (value) or an exception left it (raised), and which titles it loaded.   *)
(***************************************************************************)
\* The options of a disambiguation that a tool shows: e.options[:5].
OptionsShown == 5
\* The most options a disambiguation carries.
MaxOptions == 6

Topics == { "Python", "Mercury", "Nowhere" }
SectionTitles == { "History", "Syntax", "Missing" }

\* The page wikipedia.page(title) loads: a page with two sections, the
\* second of them empty, or a page with no section.
WikipediaPage(title, variant) ==
    [title |-> title,
     summary |-> <<"summary of ", title>>,
     url |-> <<"https://en.wikipedia.org/wiki/", title>>,
     sections |-> IF variant = "full" THEN <<"History", "Syntax">> ELSE <<>>]

\* page.section(section_title): the text of the section, "" for a section
\* with no text, None for a title the page does not have.
PageSection(page, section_title) ==
    IF \E i \in 1..Len(page.sections) : page.sections[i] = section_title
    THEN IF section_title = "History" THEN "text of History" ELSE ""
    ELSE None

DisambiguationOptions(k) == [i \in 1..k |-> <<"option", i>>]

\* What wikipedia.search(query) does: it returns no result, it returns
\* results, or it raises (a network failure).
SearchOutcomes ==
    { [kind |-> "results", results |-> <<>>, exc |-> None],
      [kind |-> "results", results |-> <<"Python", "Python (genus)">>, exc |-> None],
      [kind |-> "raise", results |-> <<>>, exc |-> "Network error"] }

\* What wikipedia.page(title) does: it loads a page, or raises
\* DisambiguationError with its options, PageError, or another exception.
PageOutcomes ==
    { [kind |-> "page", variant |-> v, options |-> <<>>, exc |-> None] :
          v \in {"full", "bare"} }
    \cup { [kind |-> "disambiguation", variant |-> "", options |-> DisambiguationOptions(k),
            exc |-> "DisambiguationError"] : k \in {0, 3, MaxOptions} }
    \cup { [kind |-> "page_error", variant |-> "", options |-> <<>>, exc |-> "PageError"],
           [kind |-> "raise", variant |-> "", options |-> <<>>, exc |-> "Network error"] }

\* A tool returned the dict value, having loaded the pages of page_calls.
Returned(value, page_calls) ==
    [raised |-> FALSE, exc |-> None, value |-> value, page_calls |-> page_calls]

\* The exception exc left the tool.
Raised(exc, page_calls) ==
    [raised |-> TRUE, exc |-> exc, value |-> <<>>, page_calls |-> page_calls]

\* options[:5]
FirstOptions(options) ==
    SubSeq(options, 1, IF Len(options) < OptionsShown THEN Len(options) ELSE OptionsShown)

AmbiguousError(options) ==
    [error |-> <<"Ambiguous topic. Try one of these: ", Join(FirstOptions(options))>>]
PageLoadError == [error |-> <<"No Wikipedia page could be loaded for this query.">>]
NoResultsError == [error |-> <<"No results found for your query.">>]

\* A fetch_wikipedia_info that loads the page of the query, not of the first
\* search result.
fetch_wikipedia_info_of_query(query, search, loaded) ==
    IF search.kind = "raise" THEN Raised(search.exc, <<>>)
    ELSE IF search.results = <<>> THEN Returned(NoResultsError, <<>>)
    ELSE CASE loaded.kind = "page" ->
                 LET page == WikipediaPage(query, loaded.variant) IN
                 Returned([title |-> page.title, summary |-> page.summary, url |-> page.url],
                          <<query>>)
           [] loaded.kind = "disambiguation" ->
                 Returned(AmbiguousError(loaded.options), <<query>>)
           [] loaded.kind = "page_error" -> Returned(PageLoadError, <<query>>)
           [] loaded.kind = "raise" -> Raised(loaded.exc, <<query>>)

\* fetch_wikipedia_info(query): DisambiguationError and PageError are
\* caught; the function has no handler for any other exception.
fetch_wikipedia_info(query, search, loaded) ==
    IF search.kind = "raise" THEN Raised(search.exc, <<>>)
    ELSE IF search.results = <<>> THEN Returned(NoResultsError, <<>>)
    ELSE LET best_match == search.results[1] IN
         CASE loaded.kind = "page" ->
                 LET page == WikipediaPage(best_match, loaded.variant) IN
                 Returned([title |-> page.title, summary |-> page.summary, url |-> page.url],
                          <<best_match>>)
           [] loaded.kind = "disambiguation" ->
                 Returned(AmbiguousError(loaded.options), <<best_match>>)
           [] loaded.kind = "page_error" -> Returned(PageLoadError, <<best_match>>)
           [] loaded.kind = "raise" -> Raised(loaded.exc, <<best_match>>)

\* list_wikipedia_sections(topic)
list_wikipedia_sections(topic, loaded) ==
    CASE loaded.kind = "page" ->
            Returned([sections |-> WikipediaPage(topic, loaded.variant).sections], <<topic>>)
      [] loaded.kind = "disambiguation" -> Returned(AmbiguousError(loaded.options), <<topic>>)
      [] loaded.kind = "page_error" -> Returned(PageLoadError, <<topic>>)
      [] loaded.kind = "raise" -> Returned([error |-> <<loaded.exc>>], <<topic>>)

\* get_section_content(topic, section_title)
get_section_content(topic, section_title, loaded) ==
    CASE loaded.kind = "page" ->
            LET content == PageSection(WikipediaPage(topic, loaded.variant), section_title)
            IN  IF content # None /\ content # ""
                THEN Returned([content |-> content], <<topic>>)
                ELSE Returned([error |-> <<"Section '", section_title,
                                           "' not found in article '", topic, "'.">>],
                              <<topic>>)
      [] loaded.kind = "disambiguation" -> Returned(AmbiguousError(loaded.options), <<topic>>)
      [] loaded.kind = "page_error" -> Returned(PageLoadError, <<topic>>)
      [] loaded.kind = "raise" -> Returned([error |-> <<loaded.exc>>], <<topic>>)

\* get_section_content(topic, section_title) of mcp_assistant/mcp_server.py.
\* page is bound to the function wikipedia.page, which is not called, so
\* page.section raises AttributeError whatever the topic is; the handler of
\* Exception returns its text.
assistant_get_section_content(topic, section_title, loaded) ==
    Returned([error |-> <<"'function' object has no attribute 'section'">>], <<>>)

\* The tools mcp_server.py registers with @mcp.tool().
ServerTools == { "fetch_wikipedia_info", "list_wikipedia_sections", "get_section_content" }

\* The parameters of each tool's function; none has a default, so each is
\* required.
RequiredParameters(tool_name) ==
    CASE tool_name = "fetch_wikipedia_info" -> {"query"}
      [] tool_name = "list_wikipedia_sections" -> {"topic"}
      [] tool_name = "get_section_content" -> {"topic", "section_title"}

\* The arguments tool_func of the client passes to session.call_tool for the
\* text input_data: {"query": input_data}.
call_tool_arguments(input_data) == [query |-> input_data]

\* A call that lacks a required parameter does not run the tool's function.
MissingParameterError == "Field required"
Rejected == Raised(MissingParameterError, <<>>)

\* The server's answer to call_tool(tool_name, arguments).
RunTool(tool_name, arguments, search, loaded) ==
    IF ~(RequiredParameters(tool_name) \subseteq DOMAIN arguments) THEN Rejected
    ELSE CASE tool_name = "fetch_wikipedia_info" ->
                 fetch_wikipedia_info(arguments.query, search, loaded)
           [] tool_name = "list_wikipedia_sections" ->
                 list_wikipedia_sections(arguments.topic, loaded)
           [] tool_name = "get_section_content" ->
                 get_section_content(arguments.topic, arguments.section_title, loaded)

(***************************************************************************)
(* The state of one session.                                               *)
(***************************************************************************)
VARIABLES
    pc,               \* where main is: "start", "input" (at input()), inside
                      \* agent.ainvoke at "chat_node" or "tool_node", "exited"
                      \* (the loop was left by break), "aborted" (an exception
                      \* left main)
    tools,            \* the registry the graph was compiled with
    list_tools_calls, \* session.list_tools() calls made so far
    catalog,          \* the backend's prompt catalog, as it is now
    messages,         \* State.messages of thread "wiki-session" (MemorySaver)
    invocations,      \* agent.ainvoke calls made so far in the session
    user_input,       \* the line read last, stripped
    line,             \* the line read last, as input() returned it
    handler,          \* the branch of main's loop that took that line
    out,              \* the lines printed since that line was read
    calls,            \* the calls made since that line was read
    exc,              \* the exception that left main, if one did
    caller,           \* who called agent.ainvoke: "main" or "handle_prompt"
    turn_start,       \* Len(messages) when agent.ainvoke was called
    requested,        \* tool calls the model requested so far in the turn
    hops,             \* model responses of the turn that requested tool calls
    before_call,      \* messages as they were when the last model call began
    status,           \* of the turn: "none", "running", "text", "failed"
    prompts_answer,   \* what session.list_prompts() answered since that line
                      \* was read, if it was called
    previous_answer,  \* what it answered for the line read before that one,
                      \* kept in a session of catalog commands
    backend,          \* what session.call_tool did for each tool call of the
                      \* last tool_node step of the turn
    server_call,      \* the server: the tool called last, its arguments, and
                      \* what the lookup library did for it
    server_result     \* the server: what that call of the tool did

vars == <<pc, tools, list_tools_calls, catalog, messages, invocations, user_input, line,
          handler, out, calls, exc, caller, turn_start, requested, hops,
          before_call, status, prompts_answer, previous_answer, backend,
          server_call, server_result>>

client_vars == <<pc, tools, list_tools_calls, catalog, messages, invocations, user_input,
                 line, handler, out, calls, exc, caller, turn_start, requested, hops,
                 before_call, status, prompts_answer, previous_answer, backend>>
server_vars == <<server_call, server_result>>

session_vars == <<tools, list_tools_calls>>
turn_vars == <<caller, turn_start, requested, hops, before_call, status, backend>>

NotListed == [called |-> FALSE, ok |-> FALSE, prompts |-> <<>>]
Listed(prompt_response) ==
    [called |-> TRUE, ok |-> prompt_response.ok, prompts |-> prompt_response.prompts]

NoServerCall == [tool |-> None]
NoServerResult == Returned(<<>>, <<>>)

NoCalls == [list_prompts |-> 0, get_prompt |-> 0, ainvoke |-> 0, llm |-> 0,
            call_tool |-> 0]

Init ==
    /\ pc = "start"
    /\ tools = <<>>
    /\ list_tools_calls = 0
    /\ catalog \in Catalogs
    /\ messages = <<>>
    /\ invocations = 0
    /\ user_input = <<>>
    /\ line = <<>>
    /\ handler = "none"
    /\ out = <<>>
    /\ calls = NoCalls
    /\ exc = None
    /\ caller = "none"
    /\ turn_start = 0
    /\ requested = 0
    /\ hops = 0
    /\ before_call = <<>>
    /\ status = "none"
    /\ prompts_answer = NotListed
    /\ previous_answer = NotListed
    /\ backend = <<>>
    /\ server_call = NoServerCall
    /\ server_result = NoServerResult

\* main up to the loop: load_mcp_tools(session), then create_graph(session),
\* which loads the tools again and compiles the graph over them.
SessionStart ==
    /\ pc = "start"
    /\ \E listed \in ServerToolLists :
          tools' = load_mcp_tools(listed)
    /\ list_tools_calls' = list_tools_calls + 2
    /\ pc' = "input"
    /\ UNCHANGED <<catalog, messages, invocations, user_input, line, handler, out, calls,
                   exc, prompts_answer, previous_answer>>
    /\ UNCHANGED turn_vars
    /\ UNCHANGED server_vars

\* The backend's catalog changes between two commands.
CatalogChanges ==
    /\ pc = "input"
    /\ catalog' \in Catalogs \ {catalog}
    /\ UNCHANGED <<pc, messages, invocations, user_input, line, handler, out, calls, exc,
                   prompts_answer, previous_answer>>
    /\ UNCHANGED session_vars
    /\ UNCHANGED server_vars
    /\ UNCHANGED turn_vars

\* input() returns rd.raw, one of lines; the loop strips it and takes the
\* branch h.
Reads(rd, lines, h) ==
    /\ pc = "input"
    /\ rd.raw \in lines
    /\ rd.branch = h
    /\ user_input' = rd.user_input
    /\ line' = rd.raw
    /\ handler' = h
    /\ previous_answer' = IF lines = CatalogLines THEN prompts_answer ELSE NotListed

NoTurn ==
    /\ caller' = "none"
    /\ turn_start' = Len(messages)
    /\ requested' = 0
    /\ hops' = 0
    /\ before_call' = <<>>
    /\ status' = "none"
    /\ backend' = <<>>

\* An agent.ainvoke that handle_prompt calls with a thread id of its own:
\* the turn of a prompt run starts on an empty conversation.
AinvokeOwnThread(content, who, limit) ==
    /\ Len(messages) + 2 <= limit
    /\ messages' = IF who = "handle_prompt"
                   THEN <<HumanMessage(content, invocations + 1)>>
                   ELSE add_messages(messages, <<HumanMessage(content, invocations + 1)>>)
    /\ invocations' = invocations + 1
    /\ pc' = "chat_node"
    /\ caller' = who
    /\ turn_start' = Len(messages') - 1
    /\ requested' = 0
    /\ hops' = 0
    /\ before_call' = messages'
    /\ status' = "running"
    /\ backend' = <<>>

\* agent.ainvoke({"messages": [HumanMessage(content)]}, thread "wiki-session")
\* is called by who: the input is written to the thread's checkpoint and the
\* graph starts at chat_node.
Ainvoke(content, who, limit) ==
    /\ Len(messages) + 2 <= limit
    /\ messages' = add_messages(messages, <<HumanMessage(content, invocations + 1)>>)
    /\ invocations' = invocations + 1
    /\ pc' = "chat_node"
    /\ caller' = who
    /\ turn_start' = Len(messages)
    /\ requested' = 0
    /\ hops' = 0
    /\ before_call' = messages'
    /\ status' = "running"
    /\ backend' = <<>>

\* main: an exit token leaves the loop.
Exit(lines) ==
    \E rd \in LineReads :
        /\ Reads(rd, lines, "exit")
        /\ pc' = "exited"
        /\ out' = <<>>
        /\ calls' = NoCalls
        /\ prompts_answer' = NotListed
        /\ NoTurn
        /\ UNCHANGED <<catalog, messages, invocations, exc>>
        /\ UNCHANGED session_vars
        /\ UNCHANGED server_vars

\* main: a line starting with /prompts runs list_prompts(session); an
\* exception of list_prompts leaves main.
ListPrompts(lines) ==
    \E rd \in LineReads, prompt_response \in PromptResponses(catalog) :
        LET r == list_prompts(prompt_response) IN
        /\ Reads(rd, lines, "list_prompts")
        /\ out' = r.out
        /\ calls' = [NoCalls EXCEPT !.list_prompts = 1]
        /\ prompts_answer' = Listed(prompt_response)
        /\ pc' = IF r.raised THEN "aborted" ELSE "input"
        /\ exc' = r.exc
        /\ NoTurn
        /\ UNCHANGED <<catalog, messages, invocations>>
        /\ UNCHANGED session_vars
        /\ UNCHANGED server_vars

\* main: a line starting with /prompt runs handle_prompt, which ends before
\* the agent is invoked; an exception that leaves handle_prompt leaves main.
HandlePromptReturns(lines) ==
    \E run \in HandlePromptRuns :
        LET r == run.result IN
        /\ Reads(run.read, lines, "handle_prompt")
        /\ run.prompt_def \in PromptResponses(catalog)
        /\ ~r.invoke
        /\ out' = r.out
        /\ calls' = [NoCalls EXCEPT !.list_prompts = r.list_prompts,
                                    !.get_prompt = r.get_prompt]
        /\ prompts_answer' = IF r.list_prompts = 0 THEN NotListed ELSE Listed(run.prompt_def)
        /\ pc' = IF r.raised THEN "aborted" ELSE "input"
        /\ exc' = r.exc
        /\ NoTurn
        /\ UNCHANGED <<catalog, messages, invocations>>
        /\ UNCHANGED session_vars
        /\ UNCHANGED server_vars

\* main: a line starting with /prompt runs handle_prompt, which resolves the
\* prompt and invokes the agent with the rendered text.
HandlePromptInvokes(lines, limit) ==
    \E run \in HandlePromptRuns :
        LET r == run.result IN
        /\ Reads(run.read, lines, "handle_prompt")
        /\ run.prompt_def \in PromptResponses(catalog)
        /\ r.invoke
        /\ out' = r.out
        /\ calls' = [NoCalls EXCEPT !.list_prompts = r.list_prompts,
                                    !.get_prompt = r.get_prompt,
                                    !.ainvoke = 1]
        /\ prompts_answer' = Listed(run.prompt_def)
        /\ Ainvoke(r.prompt_text, "handle_prompt", limit)
        /\ UNCHANGED <<catalog, exc>>
        /\ UNCHANGED session_vars
        /\ UNCHANGED server_vars

\* main: any other line is the content of a HumanMessage for the agent.
Question(lines, limit) ==
    \E rd \in LineReads :
        /\ Reads(rd, lines, "ainvoke")
        /\ out' = <<>>
        /\ calls' = [NoCalls EXCEPT !.ainvoke = 1]
        /\ prompts_answer' = NotListed
        /\ Ainvoke(rd.user_input, "main", limit)
        /\ UNCHANGED <<catalog, exc>>
        /\ UNCHANGED session_vars
        /\ UNCHANGED server_vars

(***************************************************************************)
(* The graph: START -> chat_node -> tools_condition -> tool_node or END,   *)
(* tool_node -> chat_node.                                                 *)
(***************************************************************************)
\* The tool-call lists the model may request: the names are those of the
\* tools bound to it (llm.bind_tools(tools)).
ToolCallLists(registry) ==
    UNION { [1..k -> ToolNames(registry)] : k \in 1..MaxCalls }

\* What chat_llm.invoke may return for the context msgs.
ModelResponses(registry, msgs, limit) ==
    { AIMessage(<<"answer">>, <<>>) }
    \cup { AIMessage(<<>>, tool_calls) :
              tool_calls \in { cs \in ToolCallLists(registry) :
                                  Len(msgs) + 1 + Len(cs) + 1 <= limit } }

\* A caller that prints the content of the first message of the returned
\* state.
ReplyLinesOfFirst(who, response_messages) ==
    IF who = "main"
    THEN << <<"AI:", response_messages[1].content>> >>
    ELSE << PromptResultLine, <<response_messages[1].content>> >>

\* What the caller of agent.ainvoke prints for the returned state.
ReplyLines(who, response_messages) ==
    IF who = "main"
    THEN << <<"AI:", Last(response_messages).content>> >>
    ELSE << PromptResultLine, <<Last(response_messages).content>> >>

\* A caller that prints the exception and a trace of it.
ErrorLinesWithTrace(who, e) ==
    IF who = "main"
    THEN << <<"Error:", e>>, <<"Traceback:", e>> >>
    ELSE << <<"Prompt invocation failed:", e>>, <<"Traceback:", e>> >>

\* What the caller of agent.ainvoke prints for an exception e of the agent.
ErrorLines(who, e) ==
    IF who = "main"
    THEN << <<"Error:", e>> >>
    ELSE << <<"Prompt invocation failed:", e>> >>

\* chat_node: the model answers; its message is added to State.messages and
\* tools_condition routes to tool_node, or to END, where ainvoke returns and
\* its caller prints the content of the last message.
ChatNodeResponds(limit) ==
    /\ pc = "chat_node"
    /\ \E response \in ModelResponses(tools, messages, limit) :
        LET new == add_messages(messages, <<response>>) IN
        /\ messages' = new
        /\ requested' = requested + Len(response.tool_calls)
        /\ hops' = IF response.tool_calls # <<>> THEN hops + 1 ELSE hops
        /\ IF tools_condition(new) = "tools"
           THEN /\ pc' = "tool_node"
                /\ status' = status
                /\ out' = out
           ELSE /\ pc' = "input"
                /\ status' = "text"
                /\ out' = out \o ReplyLines(caller, new)
    /\ calls' = [calls EXCEPT !.llm = @ + 1]
    /\ UNCHANGED <<catalog, invocations, user_input, line, handler, exc, caller,
                   turn_start, before_call, prompts_answer, previous_answer, backend>>
    /\ UNCHANGED session_vars
    /\ UNCHANGED server_vars

\* A chat_node that answers a failed model call with an assistant message
\* carrying the error.
ChatNodeFailsWithMessage ==
    /\ pc = "chat_node"
    /\ pc' = "input"
    /\ status' = "failed"
    /\ messages' = add_messages(messages, <<AIMessage(<<ModelError>>, <<>>)>>)
    /\ out' = out \o ErrorLines(caller, ModelError)
    /\ calls' = [calls EXCEPT !.llm = @ + 1]
    /\ UNCHANGED <<catalog, invocations, user_input, line, handler, exc, caller,
                   turn_start, requested, hops, before_call, prompts_answer, previous_answer, backend>>
    /\ UNCHANGED session_vars
    /\ UNCHANGED server_vars

\* chat_node: the model call raises.  The exception leaves agent.ainvoke; the
\* thread's checkpoint stays as the last completed step wrote it; the caller
\* prints the error and main goes on to the next input.
ChatNodeFails ==
    /\ pc = "chat_node"
    /\ pc' = "input"
    /\ status' = "failed"
    /\ out' = out \o ErrorLines(caller, ModelError)
    /\ calls' = [calls EXCEPT !.llm = @ + 1]
    /\ UNCHANGED <<catalog, messages, invocations, user_input, line, handler, exc, caller,
                   turn_start, requested, hops, before_call, prompts_answer, previous_answer, backend>>
    /\ UNCHANGED session_vars
    /\ UNCHANGED server_vars

\* What session.call_tool did for a call, with the name it was called with.
CallOf(outcome, tool_name) ==
    [kind |-> outcome.kind, text |-> outcome.text, content |-> outcome.content,
     called |-> tool_name]

\* A tool_node that runs the first tool call of the last message only.
ToolNodeFirstCallOnly ==
    /\ pc = "tool_node"
    /\ LET tool_calls == Last(messages).tool_calls IN
       \E outcomes \in [1..1 -> BackendOutcomes] :
        /\ messages' = add_messages(messages,
              << ToolMessage(tool_func(ToolByName(tools, tool_calls[1]).tool_name,
                                       outcomes[1]),
                             tool_calls[1]) >>)
        /\ calls' = [calls EXCEPT !.call_tool = @ + 1]
        /\ backend' = << CallOf(outcomes[1], ToolByName(tools, tool_calls[1]).tool_name) >>
    /\ before_call' = messages'
    /\ pc' = "chat_node"
    /\ UNCHANGED <<catalog, invocations, user_input, line, handler, out, exc, caller,
                   turn_start, requested, hops, status, prompts_answer, previous_answer>>
    /\ UNCHANGED session_vars
    /\ UNCHANGED server_vars

\* tool_node: ToolNode runs the invocation function of every tool call of the
\* last message and adds one ToolMessage per call, in one step.
ToolNode ==
    /\ pc = "tool_node"
    /\ LET tool_calls == Last(messages).tool_calls IN
       \E outcomes \in [1..Len(tool_calls) -> BackendOutcomes] :
        /\ messages' = add_messages(messages,
              [i \in 1..Len(tool_calls) |->
                  ToolMessage(tool_func(ToolByName(tools, tool_calls[i]).tool_name,
                                        outcomes[i]),
                              tool_calls[i])])
        /\ calls' = [calls EXCEPT !.call_tool = @ + Len(tool_calls)]
        /\ backend' = [i \in 1..Len(tool_calls) |->
                          CallOf(outcomes[i], ToolByName(tools, tool_calls[i]).tool_name)]
    /\ before_call' = messages'
    /\ pc' = "chat_node"
    /\ UNCHANGED <<catalog, invocations, user_input, line, handler, out, exc, caller,
                   turn_start, requested, hops, status, prompts_answer, previous_answer>>
    /\ UNCHANGED session_vars
    /\ UNCHANGED server_vars

(***************************************************************************)
(* The server's tools, called with any arguments while the lookup library  *)
(* does any of the things it may do.                                       *)
(***************************************************************************)
ServerCall(tool, arguments, search, loaded) ==
    [tool |-> tool, arguments |-> arguments, search |-> search, loaded |-> loaded]

NoSearch == [kind |-> "none", results |-> <<>>, exc |-> None]

FetchWikipediaInfo ==
    /\ \E query \in Topics, search \in SearchOutcomes, loaded \in PageOutcomes :
          /\ server_call' = ServerCall("fetch_wikipedia_info", <<query>>, search, loaded)
          /\ server_result' = fetch_wikipedia_info(query, search, loaded)
    /\ UNCHANGED client_vars

ListWikipediaSections ==
    /\ \E topic \in Topics, loaded \in PageOutcomes :
          /\ server_call' = ServerCall("list_wikipedia_sections", <<topic>>, NoSearch, loaded)
          /\ server_result' = list_wikipedia_sections(topic, loaded)
    /\ UNCHANGED client_vars

GetSectionContent ==
    /\ \E topic \in Topics, section_title \in SectionTitles, loaded \in PageOutcomes :
          /\ server_call' = ServerCall("get_section_content", <<topic, section_title>>,
                                       NoSearch, loaded)
          /\ server_result' = get_section_content(topic, section_title, loaded)
    /\ UNCHANGED client_vars

AssistantGetSectionContent ==
    /\ \E topic \in Topics, section_title \in SectionTitles, loaded \in PageOutcomes :
          /\ server_call' = ServerCall("mcp_assistant.get_section_content",
                                       <<topic, section_title>>, NoSearch, loaded)
          /\ server_result' = assistant_get_section_content(topic, section_title, loaded)
    /\ UNCHANGED client_vars

\* A tool_func of the client calls a tool of the server with a text.
ClientCallsTool ==
    /\ \E tool_name \in ServerTools, input_data \in Topics,
          search \in SearchOutcomes, loaded \in PageOutcomes :
          /\ server_call' = ServerCall(tool_name, <<input_data>>, search, loaded)
          /\ server_result' = RunTool(tool_name, call_tool_arguments(input_data),
                                      search, loaded)
    /\ UNCHANGED client_vars

NextServer ==
    \/ FetchWikipediaInfo
    \/ ListWikipediaSections
    \/ GetSectionContent
    \/ AssistantGetSectionContent
    \/ ClientCallsTool

SpecServer == Init /\ [][NextServer]_vars

\* A session in which the user types every kind of line.
Next ==
    \/ SessionStart
    \/ CatalogChanges
    \/ Exit(InputLines)
    \/ ListPrompts(InputLines)
    \/ HandlePromptReturns(InputLines)
    \/ HandlePromptInvokes(InputLines, MaxSessionMsgs)
    \/ Question(InputLines, MaxSessionMsgs)
    \/ ChatNodeResponds(MaxSessionMsgs)
    \/ ChatNodeFails
    \/ ToolNode

Spec == Init /\ [][Next]_vars

\* A session in which the user types questions and prompt runs, followed
\* over longer conversations.
NextTurns ==
    \/ SessionStart
    \/ HandlePromptInvokes(TurnLines, MaxTurnMsgs)
    \/ Question(TurnLines, MaxTurnMsgs)
    \/ ChatNodeResponds(MaxTurnMsgs)
    \/ ChatNodeFails
    \/ ToolNode

SpecTurns == Init /\ [][NextTurns]_vars

\* A session in which the user types catalog commands while the backend's
\* catalog changes.
NextCatalog ==
    \/ SessionStart
    \/ CatalogChanges
    \/ ListPrompts(CatalogLines)
    \/ HandlePromptReturns(CatalogLines)
    \/ HandlePromptInvokes(CatalogLines, MaxSessionMsgs)
    \/ ChatNodeResponds(MaxSessionMsgs)
    \/ ChatNodeFails
    \/ ToolNode

SpecCatalog == Init /\ [][NextCatalog]_vars

\* The same session when every call made inside agent.ainvoke returns: the
\* model call of chat_node answers or raises, and the tool calls of tool_node
\* answer or raise.
SpecTurnsFair ==
    /\ SpecTurns
    /\ WF_vars(ChatNodeResponds(MaxTurnMsgs) \/ ChatNodeFails)
    /\ WF_vars(ToolNode)

(***************************************************************************)
(* The claims.                                                             *)
(***************************************************************************)
\* The messages the turn has added to the conversation.
TurnMessages == SubSeq(messages, turn_start + 1, Len(messages))

\* How many messages of msgs are of this type, with or without tool calls.
NumberOf(msgs, type, with_calls) ==
    Cardinality({ i \in 1..Len(msgs) :
                    msgs[i].type = type /\ (msgs[i].tool_calls # <<>>) = with_calls })

\* C1 as stated: when a turn ends with the model's text, the conversation
\* is longer than at the start of the turn by the user message, one
\* tool-result message per requested tool call, and the final assistant
\* message.
C1_LengthWithoutToolCallMessages ==
    status = "text" => Len(messages) = turn_start + 1 + requested + 1

\* C1, amended: when a turn ends with the model's text, the conversation is
\* longer than at the start of the turn by the user message, one assistant
\* message per model response that requested tool calls, one tool-result
\* message per requested tool call, and exactly one final assistant text
\* message.
C1_TurnLength ==
    status = "text" =>
        /\ Len(messages) = turn_start + 1 + hops + requested + 1
        /\ NumberOf(TurnMessages, "human", FALSE) = 1
        /\ NumberOf(TurnMessages, "ai", TRUE) = hops
        /\ NumberOf(TurnMessages, "tool", FALSE) = requested
        /\ NumberOf(TurnMessages, "ai", FALSE) = 1
        /\ Last(messages).type = "ai" /\ Last(messages).tool_calls = <<>>

\* A turn on a non-empty conversation ended with text after a model response
\* that requested more than one tool call.
C1_Witness ==
    status = "text" /\ turn_start > 0 /\ hops >= 1 /\ requested > hops

\* C2: no exception raised while a command is handled leaves main; the
\* session is never ended by the failure of a command.
C2_NoCommandFailureEndsSession == pc # "aborted"

\* Whether text (a tuple of parts) has this part.
Contains(text, part) == \E i \in 1..Len(text) : text[i] = part

\* C3: when session.call_tool raises for a requested tool call, the tool's
\* invocation function returns a text that has the name of that tool and the
\* message of the exception; tool_node adds it as the tool-result message of
\* that call, and the turn goes on to the next model call.
C3_FailingToolCallBecomesToolResult ==
    (pc = "chat_node" /\ backend # <<>>) =>
        LET n == Len(backend)
            request == messages[Len(messages) - n]
        IN  /\ status = "running"
            /\ request.type = "ai"
            /\ Len(request.tool_calls) = n
            /\ \A i \in 1..n :
                  backend[i].kind = "raise" =>
                      LET result == messages[Len(messages) - n + i] IN
                      /\ result.type = "tool"
                      /\ Contains(result.content, request.tool_calls[i])
                      /\ Contains(result.content, backend[i].text)

\* tool_node has just run a tool call for which the backend raised.
C3_Witness ==
    /\ pc = "chat_node"
    /\ \E i \in 1..Len(backend) : backend[i].kind = "raise"

\* The user message of the running or last turn.
IsTurnUserMessage(m) == m.type = "human" /\ m.id = invocations

\* C4 as stated: when the model call of a turn fails, the conversation is
\* what it was immediately before that call, and the user message of the
\* turn is its last message, present once.
C4_UserMessageIsLast ==
    status = "failed" =>
        /\ messages = before_call
        /\ IsTurnUserMessage(Last(messages))
        /\ Cardinality({ i \in 1..Len(messages) : IsTurnUserMessage(messages[i]) }) = 1

\* C4, amended: when the model call of a turn fails, no assistant message
\* is added and the conversation is what it was immediately before that
\* call: the user message of the turn is present once, where the turn put
\* it, followed by the messages of the hops of the turn that completed (one
\* assistant message per hop and one tool-result message per requested
\* call); it is the last message when the failed call is the first model
\* call of the turn.
C4_FailedModelCallLeavesConversation ==
    status = "failed" =>
        /\ messages = before_call
        /\ Len(messages) = turn_start + 1 + hops + requested
        /\ IsTurnUserMessage(messages[turn_start + 1])
        /\ Cardinality({ i \in 1..Len(messages) : IsTurnUserMessage(messages[i]) }) = 1
        /\ NumberOf(TurnMessages, "ai", FALSE) = 0
        /\ hops = 0 => IsTurnUserMessage(Last(messages))
        /\ hops > 0 => Last(messages).type = "tool"

\* A model call failed after a hop of tool calls, on a conversation that
\* held earlier turns.
C4_Witness == status = "failed" /\ hops > 0 /\ turn_start > 0

\* The tokens of the command line read last.
CommandParts == ShlexSplit(user_input)

\* The names that ", ".join put into joined, in order.
JoinedNames(joined) == [i \in 1..((Len(joined) + 1) \div 2) |-> joined[2 * i - 1]]

\* C5: a run-prompt command that names a prompt of the catalog as listed for
\* this command, with a number of arguments other than the number the prompt
\* declares, prints the expected number and the declared argument names in
\* declared order; session.get_prompt is not called and the agent is not
\* invoked.
C5_ArgumentCountMismatch ==
    LET parts == CommandParts.parts
        found == FindPrompt(prompts_answer.prompts, parts[2])
    IN  ( /\ handler = "handle_prompt"
          /\ CommandParts.ok
          /\ Len(parts) >= 2
          /\ prompts_answer.called
          /\ prompts_answer.ok
          /\ found # <<>>
          /\ Len(parts) - 2 # Len(found[1].arguments) )
        =>
        ( /\ calls.get_prompt = 0
          /\ calls.ainvoke = 0
          /\ calls.llm = 0
          /\ status = "none"
          /\ pc = "input"
          /\ Len(out) = 1
          /\ Len(out[1]) = 4
          /\ out[1][1] = "Expected "
          /\ out[1][2] = Len(found[1].arguments)
          /\ out[1][3] = " arguments: "
          /\ JoinedNames(out[1][4]) = found[1].arguments
          /\ \A i \in 1..Len(out[1][4]) : i % 2 = 0 => out[1][4][i] = ", " )

\* A run-prompt command gave one (quoted) argument to a prompt that declares
\* two, and the expected two were reported.
C5_Witness ==
    /\ handler = "handle_prompt"
    /\ prompts_answer.called
    /\ Len(out) = 1
    /\ Len(out[1]) = 4
    /\ out[1][2] = 2
    /\ CommandParts.ok
    /\ Len(CommandParts.parts) = 3

\* C6: when the model call fails in a turn started by a plain question or
\* by a prompt run, exactly one line is printed for the turn, the error line
\* of the caller; no reply is printed, and main is back at input().
C6_ModelFailureOneErrorLine ==
    status = "failed" =>
        /\ pc = "input"
        /\ Len(out) = 1
        /\ caller = "main" => out[1] = <<"Error:", ModelError>>
        /\ caller = "handle_prompt" => out[1] = <<"Prompt invocation failed:", ModelError>>
        /\ caller \in {"main", "handle_prompt"}

\* The model call failed in a turn started by a prompt run.
C6_Witness == status = "failed" /\ caller = "handle_prompt" /\ Len(out) = 1

\* C7: with a registry of zero tools, the graph never enters tool_node, the
\* step of chat_node ends the turn (with the model's text or with the
\* failure of the model call), and, the model call returning, every turn
\* reaches one of the two.
C7_ZeroToolsTurnEnds ==
    /\ [][ tools = <<>> =>
             /\ pc' # "tool_node"
             /\ pc = "chat_node" => (pc' = "input" /\ status' \in {"text", "failed"})
         ]_vars
    /\ (tools = <<>> /\ pc = "chat_node") ~> (status \in {"text", "failed"})

\* A turn ended with the model's text in a session with zero tools.
C7_Witness == tools = <<>> /\ pc = "input" /\ status = "text"

\* C8: the list-prompts command on a catalog that answers with zero prompts
\* prints the line "No prompts found on the server." and nothing else, and
\* raises nothing; when the catalog query fails, that line is not printed
\* and the failure is raised.
C8_EmptyCatalogIsNotAFailure ==
    handler = "list_prompts" =>
        /\ calls.list_prompts = 1
        /\ prompts_answer.called
        /\ (prompts_answer.ok /\ prompts_answer.prompts = <<>>) =>
              /\ out = << <<"No prompts found on the server.">> >>
              /\ exc = None
              /\ pc = "input"
        /\ ~prompts_answer.ok =>
              /\ \A i \in 1..Len(out) : out[i] # <<"No prompts found on the server.">>
              /\ exc = CatalogError
              /\ pc = "aborted"

\* The list-prompts command ran on a reachable catalog with zero prompts.
C8_Witness ==
    /\ handler = "list_prompts"
    /\ prompts_answer.ok
    /\ prompts_answer.prompts = <<>>
    /\ out = <<NoPromptsLine>>

\* The handler of a line, by the order of main's tests: is_exit, is_list
\* and is_run say which of the three tests the line passes first, and text
\* is the content a question is forwarded with.
HandledInOrder(is_exit, is_list, is_run, text) ==
    handler # "none" =>
        /\ is_exit => (handler = "exit" /\ pc = "exited" /\ calls = NoCalls)
        /\ is_list =>
              /\ handler = "list_prompts"
              /\ calls = [NoCalls EXCEPT !.list_prompts = 1]
              /\ caller = "none"
        /\ is_run =>
              /\ handler = "handle_prompt"
              /\ caller \in {"none", "handle_prompt"}
              /\ calls.ainvoke <= 1
        /\ (~is_exit /\ ~is_list /\ ~is_run) =>
              /\ handler = "ainvoke"
              /\ caller = "main"
              /\ calls.list_prompts = 0 /\ calls.get_prompt = 0 /\ calls.ainvoke = 1
              /\ messages[turn_start + 1] = HumanMessage(text, invocations)

\* C9 as stated: the input line is handled by one handler, chosen in this
\* order: a line that is exactly an exit token, in any letter case, ends the
\* session with no catalog, tool or model call; otherwise a line that begins
\* with /prompts runs list_prompts only; otherwise a line that begins with
\* /prompt runs handle_prompt only; otherwise the full line is the content of
\* the user message of one agent.ainvoke called by main.
C9_DispatchOnTheLineAsTyped ==
    LET is_exit == Lower(line) \in ExitTokens
        is_list == ~is_exit /\ StartsWith(line, CmdPrompts)
        is_run == ~is_exit /\ ~is_list /\ StartsWith(line, CmdPrompt)
    IN  HandledInOrder(is_exit, is_list, is_run, line)

\* C9, amended: the input line with its leading and trailing whitespace
\* removed is handled by one handler, chosen in this order: an exit token, in
\* any letter case, ends the session with no catalog, tool or model call;
\* otherwise a line that begins with /prompts runs list_prompts only;
\* otherwise a line that begins with /prompt runs handle_prompt only;
\* otherwise the stripped line is the content of the user message of one
\* agent.ainvoke called by main.
C9_DispatchPriority ==
    LET is_exit == Lower(user_input) \in { <<"e","x","i","t">>, <<"q","u","i","t">>, <<"q">> }
        is_list == ~is_exit /\ StartsWith(user_input, <<"/","p","r","o","m","p","t","s">>)
        is_run == ~is_exit /\ ~is_list
                  /\ StartsWith(user_input, <<"/","p","r","o","m","p","t">>)
    IN  /\ user_input = Strip(line)
        /\ HandledInOrder(is_exit, is_list, is_run, user_input)

\* The line qq, which starts with an exit token and is none, was forwarded
\* to the agent as a question.
C9_Witness ==
    /\ handler = "ainvoke"
    /\ user_input = <<"q", "q">>
    /\ status = "text"

\* C10: a run-prompt command with no prompt-name token prints the usage
\* line and does nothing else: no catalog query, no render call, no agent
\* invocation, and the conversation is as it was.
C10_UsageErrorDoesNothing ==
    [][ ( /\ pc = "input"
          /\ handler' = "handle_prompt"
          /\ ShlexSplit(user_input').ok
          /\ Len(ShlexSplit(user_input').parts) < 2 )
        =>
        ( /\ calls' = NoCalls
          /\ messages' = messages
          /\ invocations' = invocations
          /\ status' = "none"
          /\ pc' = "input"
          /\ out' = << <<"Usage: /prompt <name> \"args>\"">> >> )
      ]_vars

\* The command /prompt was read and answered with the usage line.
C10_Witness ==
    /\ handler = "handle_prompt"
    /\ user_input = <<"/","p","r","o","m","p","t">>
    /\ out = <<UsageLine>>

\* C11: a run-prompt command whose prompt name is the name of no prompt of
\* the catalog as listed for this command (names compared letter for
\* letter, case included) prints that the prompt was not found;
\* session.get_prompt is not called and the agent is not invoked.
C11_PromptNotFound ==
    LET parts == CommandParts.parts IN
    ( /\ handler = "handle_prompt"
      /\ CommandParts.ok
      /\ Len(parts) >= 2
      /\ prompts_answer.called
      /\ prompts_answer.ok
      /\ \A i \in 1..Len(prompts_answer.prompts) :
            prompts_answer.prompts[i].name # parts[2] )
    =>
    ( /\ calls.list_prompts = 1
      /\ calls.get_prompt = 0
      /\ calls.ainvoke = 0
      /\ calls.llm = 0
      /\ status = "none"
      /\ pc = "input"
      /\ out = << <<"Prompt '", parts[2], "' not found.">> >> )

\* The command /prompt R was answered as not found by a catalog that has the
\* prompt r.
C11_Witness ==
    /\ handler = "handle_prompt"
    /\ user_input = CmdPrompt \o <<" ", "R">>
    /\ prompts_answer.ok
    /\ \E i \in 1..Len(prompts_answer.prompts) : prompts_answer.prompts[i].name = <<"r">>
    /\ Len(out) = 1
    /\ out[1][1] = "Prompt '"

\* C12: a run-prompt command that names a prompt of the catalog as listed
\* for this command and gives as many arguments as the prompt declares calls
\* session.get_prompt once; when the prompt is rendered, the agent is
\* invoked once by handle_prompt, and the user message it adds to the
\* conversation has the text rendered for the prompt's name and the binding
\* of the i-th declared argument name to the i-th given argument, for
\* every i.  When session.get_prompt raises, the failure is printed and the
\* agent is not invoked.
C12_PromptRunBindsRendersInvokes ==
    LET parts == CommandParts.parts
        named == { i \in 1..Len(prompts_answer.prompts) :
                      /\ prompts_answer.prompts[i].name = parts[2]
                      /\ \A j \in 1..(i - 1) : prompts_answer.prompts[j].name # parts[2] }
    IN  ( /\ handler = "handle_prompt"
          /\ CommandParts.ok
          /\ Len(parts) >= 2
          /\ prompts_answer.called
          /\ prompts_answer.ok
          /\ named # {}
          /\ \A i \in named : Len(prompts_answer.prompts[i].arguments) = Len(parts) - 2 )
        =>
        ( /\ calls.list_prompts = 1
          /\ calls.get_prompt = 1
          /\ calls.ainvoke <= 1
          /\ calls.ainvoke = 0 =>
                /\ out = << <<"Prompt invocation failed:", RenderError>> >>
                /\ status = "none"
                /\ Len(messages) = turn_start
          /\ calls.ainvoke = 1 =>
                /\ caller = "handle_prompt"
                /\ Len(messages) > turn_start
                /\ NumberOf(TurnMessages, "human", FALSE) = 1
                /\ \A i \in named :
                      LET arguments == prompts_answer.prompts[i].arguments
                          seed == messages[turn_start + 1]
                      IN  /\ seed.type = "human"
                          /\ seed.id = invocations
                          /\ Len(seed.content) = 3
                          /\ seed.content[2] = parts[2]
                          /\ DOMAIN seed.content[3] = { arguments[k] : k \in 1..Len(arguments) }
                          /\ \A k \in 1..Len(arguments) :
                                seed.content[3][arguments[k]] = parts[2 + k]
                          /\ seed = HumanMessage(RenderPrompt(parts[2], seed.content[3]),
                                                 invocations) )

\* The command /prompt p x y ran the prompt p, which declares arg1 and arg2,
\* on a conversation that held an earlier turn, and the turn ended with the
\* model's text.
C12_Witness ==
    /\ handler = "handle_prompt"
    /\ calls.get_prompt = 1
    /\ calls.ainvoke = 1
    /\ status = "text"
    /\ turn_start > 0
    /\ Len(CommandParts.parts) = 4

\* Whether the sequence earlier is a prefix of the sequence later.
IsPrefix(earlier, later) ==
    /\ Len(earlier) <= Len(later)
    /\ SubSeq(later, 1, Len(earlier)) = earlier

\* C13: the conversation only grows by appending: in every step of a session
\* (a question or a prompt run starting a turn, a model response, a failed
\* model call, a step of tool calls) the conversation before the step is a
\* prefix of the conversation after it, so the conversation at any earlier
\* point is a prefix of the conversation at every later point.
C13_AppendOnly == [][IsPrefix(messages, messages')]_vars

\* A second turn, started by a prompt run, added its messages after those of
\* the first turn and ended with the model's text.
C13_Witness ==
    /\ turn_start > 0
    /\ caller = "handle_prompt"
    /\ status = "text"
    /\ Len(messages) > turn_start + 1
    /\ messages[1].type = "human"
    /\ messages[1].id = 1

\* C14: the tools are listed once in a session, at its start: once main is
\* at its loop, session.list_tools() has been called exactly one time, and
\* it is not called again.
C14_ListToolsIssuedOnce ==
    /\ list_tools_calls <= 1
    /\ pc # "start" => list_tools_calls = 1

\* The positions of the assistant messages of the running turn that request
\* tool calls.
RequestPositions ==
    { i \in (turn_start + 1)..Len(messages) :
          messages[i].type = "ai" /\ messages[i].tool_calls # <<>> }

\* C15: when a model call of a turn is about to start after a model response
\* that requested tool calls, every one of those calls has been run and its
\* tool-result message is in the conversation, in the order of the
\* requests, after the message that requested them; and from the start of
\* the turn up to that model call nothing has been printed to the user.
C15_ToolCallsCompleteBeforeNextModelCall ==
    /\ pc \in {"chat_node", "tool_node"} => (status = "running" /\ out = <<>>)
    /\ (pc = "chat_node" /\ hops > 0) =>
          LET at == CHOOSE i \in RequestPositions : \A j \in RequestPositions : j <= i
              tool_calls == messages[at].tool_calls
              n == Len(tool_calls)
          IN  /\ RequestPositions # {}
              /\ calls.call_tool = requested
              /\ Len(backend) = n
              /\ Len(messages) = at + n
              /\ \A i \in 1..n :
                    /\ messages[at + i].type = "tool"
                    /\ messages[at + i].name = tool_calls[i]
                    /\ messages[at + i].content =
                          tool_func(ToolByName(tools, tool_calls[i]).tool_name, backend[i])

\* The model requested two tool calls in one response, one of them failed,
\* and the next model call is about to start.
C15_Witness ==
    /\ pc = "chat_node"
    /\ Len(backend) = 2
    /\ backend[1].kind = "raise"
    /\ backend[2].kind = "content"
    /\ out = <<>>

\* C16: a reply is printed for a turn only when the model has answered with
\* plain text: while the turn runs nothing is printed; a model response
\* that requests tool calls sends the graph to tool_node and tool_node sends
\* it back to chat_node, however many hops the turn has made; and when the
\* turn ends with text, the last message of the conversation is that
\* plain-text assistant message and the reply printed is its content.
C16_ReplyIsTheFinalText ==
    /\ [](status = "running" => out = <<>>)
    /\ [](status = "text" =>
            /\ pc = "input"
            /\ Last(messages).type = "ai"
            /\ Last(messages).tool_calls = <<>>
            /\ caller = "main" => out = << <<"AI:", Last(messages).content>> >>
            /\ caller = "handle_prompt" =>
                  out = << <<"\n=== Prompt Result ===">>, <<Last(messages).content>> >>
            /\ caller \in {"main", "handle_prompt"})
    /\ [][ /\ ( /\ pc = "chat_node"
                /\ Len(messages') > Len(messages)
                /\ Last(messages').tool_calls # <<>> )
              => (pc' = "tool_node" /\ status' = "running" /\ out' = out
                  /\ hops' = hops + 1)
           /\ pc = "tool_node" => (pc' = "chat_node" /\ status' = "running")
           /\ (status' = "text" /\ status # "text") =>
                 ( /\ pc = "chat_node"
                   /\ Len(messages') = Len(messages) + 1
                   /\ Last(messages').tool_calls = <<>> )
         ]_vars

\* A turn ended with the model's text after two hops of tool calls.
C16_Witness ==
    /\ status = "text"
    /\ hops >= 2
    /\ Len(out) = 1
    /\ out[1] = <<"AI:", <<"answer">>>>

\* C17: when a turn that started on an empty conversation has ended with
\* the model's text after one model response that requested one tool call,
\* the conversation holds exactly 4 messages, in this order: the user
\* message, the assistant message with the tool-call request, the
\* tool-result message of that call, the assistant message with the text.
C17_SingleToolCallTurnHasFourMessages ==
    (status = "text" /\ turn_start = 0 /\ hops = 1 /\ requested = 1) =>
        /\ Len(messages) = 4
        /\ messages[1].type = "human"
        /\ messages[1].id = invocations
        /\ messages[2].type = "ai"
        /\ Len(messages[2].tool_calls) = 1
        /\ messages[3].type = "tool"
        /\ messages[3].name = messages[2].tool_calls[1]
        /\ messages[4].type = "ai"
        /\ messages[4].tool_calls = <<>>
        /\ messages[4].content # <<>>

\* A question asked on an empty conversation was answered with text after
\* one tool call, which returned a result.
C17_Witness ==
    /\ status = "text"
    /\ turn_start = 0
    /\ hops = 1
    /\ requested = 1
    /\ caller = "main"
    /\ Len(messages) = 4
    /\ messages[3].content = <<"a result">>

\* Whether the lines printed have the line that names this prompt.
PrintsPrompt(lines, prompt) ==
    \E i \in 1..Len(lines) : lines[i] = <<"\nPrompt: ", prompt.name>>

\* C18: the catalog is not cached: every list-prompts command, and every
\* run-prompt command that has a prompt-name token, calls
\* session.list_prompts() once, and the answer, when the call returns, is
\* the catalog as it is when the command runs; the list-prompts command
\* prints the prompts of that catalog, or the no-prompts line when it has
\* none.
C18_CatalogIsListedAfresh ==
    [][ (pc = "input" /\ catalog' = catalog) =>
          LET fresh == /\ calls'.list_prompts = 1
                       /\ prompts_answer'.called
                       /\ prompts_answer'.ok => prompts_answer'.prompts = catalog
          IN  /\ handler' = "list_prompts" =>
                    /\ fresh
                    /\ (prompts_answer'.ok /\ catalog = <<>>) =>
                          out' = << <<"No prompts found on the server.">> >>
                    /\ (prompts_answer'.ok /\ catalog # <<>>) =>
                          \A i \in 1..Len(catalog) : PrintsPrompt(out', catalog[i])
              /\ ( /\ handler' = "handle_prompt"
                   /\ ShlexSplit(user_input').ok
                   /\ Len(ShlexSplit(user_input').parts) >= 2 ) => fresh
      ]_vars

\* Two commands in a row listed the catalog, the catalog changed between
\* them from no prompts to some, and the second, a list-prompts command,
\* printed the prompts.
C18_Witness ==
    /\ handler = "list_prompts"
    /\ previous_answer.called
    /\ previous_answer.ok
    /\ previous_answer.prompts = <<>>
    /\ prompts_answer.ok
    /\ prompts_answer.prompts # <<>>
    /\ prompts_answer.prompts = catalog
    /\ PrintsPrompt(out, PromptP)

\* Whether the lookup of the server's last call succeeded: the search, when
\* the tool searches, returned a result, and the page loaded.
LookupSucceeded ==
    /\ server_call.loaded.kind = "page"
    /\ server_call.tool = "fetch_wikipedia_info" =>
          (server_call.search.kind = "results" /\ server_call.search.results # <<>>)

\* Whether the lookup library raised in the server's last call: the search,
\* or the load of the page when the tool came to load one.
LookupRaised ==
    \/ server_call.search.kind = "raise"
    \/ /\ server_call.loaded.kind # "page"
       /\ server_call.tool = "fetch_wikipedia_info" =>
             (server_call.search.kind = "results" /\ server_call.search.results # <<>>)

\* C20: every tool of the server returns a dict whatever the lookup library
\* does: no exception leaves the tool; when the lookup succeeds the dict has
\* no error key, and when the library raises (ambiguous topic, missing page
\* or any other exception) the dict has an error key.
C20_ServerToolsAlwaysReturnADict ==
    (server_call # NoServerCall /\ server_result.exc # MissingParameterError) =>
        /\ ~server_result.raised
        /\ (LookupSucceeded /\ server_call.tool # "get_section_content") =>
              "error" \notin DOMAIN server_result.value
        /\ LookupRaised => "error" \in DOMAIN server_result.value

\* Whether the server's last call was a call of get_section_content, of
\* either server, with a topic and a section title.
IsGetSectionContentCall ==
    /\ server_call.tool \in {"get_section_content", "mcp_assistant.get_section_content"}
    /\ ~server_result.raised
    /\ Len(server_call.arguments) = 2

\* C21: get_section_content, in mcp_server.py and in
\* mcp_assistant/mcp_server.py, returns a dict with the content exactly when
\* the page of the topic loads and the section has a text that is not empty;
\* when the page loads and the section is absent or empty it returns an
\* error that has the section title and the topic.
C21_SectionContentExactlyWhenPresent ==
    IsGetSectionContentCall =>
        LET topic == server_call.arguments[1]
            section_title == server_call.arguments[2]
            loaded == server_call.loaded
            content == PageSection(WikipediaPage(topic, loaded.variant), section_title)
            present == loaded.kind = "page" /\ content # None /\ content # ""
        IN  /\ ("content" \in DOMAIN server_result.value) <=> present
            /\ present => server_result.value = [content |-> content]
            /\ (loaded.kind = "page" /\ ~present) =>
                  /\ "error" \in DOMAIN server_result.value
                  /\ Contains(server_result.value.error, section_title)
                  /\ Contains(server_result.value.error, topic)

\* C22: fetch_wikipedia_info returns the title, the summary and the url of
\* the page of the first search result exactly when the search returns one
\* result or more and that page loads; when the search returns no result it
\* returns the no-results error and loads no page.
C22_FetchReturnsFirstResultPage ==
    server_call.tool = "fetch_wikipedia_info" =>
        LET search == server_call.search
            loaded == server_call.loaded
            found == search.kind = "results" /\ search.results # <<>>
            is_page == /\ ~server_result.raised
                       /\ DOMAIN server_result.value = {"title", "summary", "url"}
        IN  /\ is_page <=> (found /\ loaded.kind = "page")
            /\ is_page =>
                  LET page == WikipediaPage(search.results[1], loaded.variant) IN
                  /\ server_result.page_calls = <<search.results[1]>>
                  /\ server_result.value.title = page.title
                  /\ server_result.value.summary = page.summary
                  /\ server_result.value.url = page.url
            /\ (search.kind = "results" /\ search.results = <<>>) =>
                  /\ ~server_result.raised
                  /\ server_result.page_calls = <<>>
                  /\ DOMAIN server_result.value = {"error"}
                  /\ server_result.value.error = <<"No results found for your query.">>

\* fetch_wikipedia_info("Mercury") returned the page of the first result of
\* a search with two results.
C22_Witness ==
    /\ server_call.tool = "fetch_wikipedia_info"
    /\ server_call.arguments = <<"Mercury">>
    /\ Len(server_call.search.results) = 2
    /\ ~server_result.raised
    /\ DOMAIN server_result.value = {"title", "summary", "url"}
    /\ server_result.value.title = "Python"

\* C23: every tool the server registers can be called with the one argument
\* the client passes, the text under the name query: the call supplies
\* every parameter the tool requires, and no call of the client is answered
\* with a missing-parameter failure.
C23_ClientSuppliesEveryRequiredParameter ==
    (server_call # NoServerCall /\ server_call.tool \in ServerTools) =>
        /\ server_result.exc # "Field required"
        /\ \A input_data \in Topics :
              RequiredParameters(server_call.tool)
                  \subseteq DOMAIN call_tool_arguments(input_data)

\* C24: the registry has one descriptor per tool the server listed, in the
\* listed order, and the invocation function of the descriptor of a tool
\* calls session.call_tool with the name of that tool: each tool call the
\* model requests by name reaches the backend under that name.
C24_DescriptorCallsItsOwnTool ==
    /\ pc # "start" =>
          \E listed \in ServerToolLists :
              /\ Len(tools) = Len(listed)
              /\ \A i \in 1..Len(listed) :
                    /\ tools[i].name = listed[i].name
                    /\ tools[i].tool_name = listed[i].name
    /\ (pc = "chat_node" /\ backend # <<>>) =>
          LET n == Len(backend)
              request == messages[Len(messages) - n]
          IN  /\ Len(request.tool_calls) = n
              /\ \A i \in 1..n : backend[i].called = request.tool_calls[i]

\* With two tools in the registry, the model requested the first of them
\* and then the second, and each call reached the backend under its name.
C24_Witness ==
    /\ Len(tools) = 2
    /\ pc = "chat_node"
    /\ Len(backend) = 2
    /\ backend[1].called = tools[1].name
    /\ backend[2].called = tools[2].name
    /\ tools[1].name # tools[2].name

\* The positions of the user message of the k-th agent.ainvoke of the
\* session in the conversation.
PositionsOfTurn(k) ==
    { i \in 1..Len(messages) : messages[i].type = "human" /\ messages[i].id = k }

\* C25: every turn of the session, started by a question or by a prompt
\* run, works on the one conversation of the session: whenever the model is
\* called, its context is that conversation, which has the user message of
\* every agent.ainvoke of the session so far, each once and in the order of
\* the turns, the messages of the running turn coming after all those the
\* earlier turns added.
C25_OneConversationForAllTurns ==
    /\ \A k \in 1..invocations : Cardinality(PositionsOfTurn(k)) = 1
    /\ \A k \in 1..invocations, l \in 1..invocations :
          k < l => \A i \in PositionsOfTurn(k), j \in PositionsOfTurn(l) : i < j
    /\ invocations > 0 => PositionsOfTurn(invocations) = {turn_start + 1}
    /\ pc = "chat_node" => before_call = messages

\* The model is called in a turn started by a prompt run, and its context
\* begins with the messages of an earlier turn started by a question.
C25_Witness ==
    /\ pc = "chat_node"
    /\ caller = "handle_prompt"
    /\ invocations = 2
    /\ turn_start >= 2
    /\ messages[1] = HumanMessage(<<"q", "q">>, 1)
    /\ messages[2].type = "ai"

\* C26: when session.call_tool returns for a tool call, the tool's
\* invocation function returns a text and does not raise: the text of the
\* first content item of the result, or "No result" when the result has no
\* content item; tool_node adds it as the tool-result message of the call.
C26_SuccessfulCallReturnsFirstItemText ==
    (pc = "chat_node" /\ backend # <<>>) =>
        LET n == Len(backend) IN
        /\ status = "running"
        /\ Len(messages) > n
        /\ \A i \in 1..n :
              LET result == messages[Len(messages) - n + i] IN
              backend[i].kind # "raise" =>
                  /\ result.type = "tool"
                  /\ Len(result.content) = 1
                  /\ backend[i].content # <<>> => result.content[1] = backend[i].content[1]
                  /\ backend[i].content = <<>> => result.content[1] = "No result"

\* tool_node has run two tool calls: one returned a result of two content
\* items, the other a result of none.
C26_Witness ==
    /\ pc = "chat_node"
    /\ Len(backend) = 2
    /\ Len(backend[1].content) = 2
    /\ backend[2].kind = "empty"
    /\ Last(messages).content = <<"No result">>

====
